---- MODULE Spec2Model ----
(***************************************************************************)
(* State-machine model of the SpeechConverter React component.             *)
(*                                                                         *)
(* The repository holds two near-duplicate copies of the component:        *)
(*   src/app/chatbot/page.js        - the "timeout variant": it keeps a    *)
(*                                    15000 ms inactivity timer            *)
(*   src/app/components/Chatbot.js  - the variant without a timer          *)
(* The variable timeoutVariant selects the copy; everything the two copies *)
(* share is modelled once.                                                 *)
(*                                                                         *)
(* Platform objects (MediaStream, AudioContext, requestAnimationFrame      *)
(* handles, setTimeout handles, SpeechRecognition) are modelled by the     *)
(* part of their state the component can change or observe:                *)
(*   - a stream is the id of a MediaStream; liveTracks holds the streams   *)
(*     whose audio track has not been stopped;                             *)
(*   - openContexts holds the AudioContexts that have not been closed;     *)
(*   - frames holds the requestAnimationFrame callbacks still scheduled;   *)
(*   - timers / copyTimers hold the setTimeout callbacks still pending,    *)
(*     oldest first, each with the time left until it is due;              *)
(*   - recState is the SpeechRecognition session: start() throws           *)
(*     InvalidStateError until the session that stop() winds down has      *)
(*     fired its end event, and result events may still be delivered while *)
(*     it winds down.                                                      *)
(* Handles are opaque to the component (it only stores them and hands them *)
(* back to cancel/clear), so a fresh handle is the least number that names *)
(* no object still alive.                                                  *)
(***************************************************************************)
EXTENDS Naturals, Integers, Sequences, FiniteSets

\* ---------------------------------------------------------------- bounds
\* unresolved getUserMedia / clipboard.writeText promises at one time
MaxPending == 2
\* MediaStreams / AudioContexts / frame callbacks / inactivity timers alive at one time
MaxHandles == 2
\* result segments per recognition event
MaxSegs == 2
\* pending copy-confirmation reset timers at one time
MaxCopyTimers == 2
\* the longest step by which the clock advances in one Tick: on the fine clock
\* of the clipboard specification, and on the coarse clock of the lifecycle
TickMs == 1000
CoarseTickMs == 5000

\* ------------------------------------------------------- program constants
\* setTimeout(stopRecording, 15000)
InactivityMs == 15000
\* setTimeout(() => setIsCopied(false), 2000)
CopyResetMs == 2000

\* useRef(null) / useState(null): nothing is held
NULL == 0
\* new SpeechRecognition(): the one recognizer object the effect constructs
Recognizer == 1

\* the transcripts a hypothesis can carry, as sequences of characters
Words == {<<"a">>, <<"b">>}
\* what the user can type into the text area
EditTexts == {<<>>, <<"b", "a">>}

VARIABLES
    timeoutVariant,     \* TRUE: chatbot/page.js, FALSE: components/Chatbot.js
    recognition,        \* useState(null): NULL or Recognizer
    recState,           \* the SpeechRecognition session
    mounted,            \* the component is mounted (canvasRef.current is the canvas)
    isRecording,        \* RecordingState
    transcribedText,    \* TranscriptText
    isCopied,           \* CopiedFlag
    mediaStreamRef,
    audioContextRef,
    analyserRef,
    animationFrameRef,
    timeoutRef,
    liveTracks,         \* streams with a live track
    openContexts,       \* audio contexts not closed
    frames,             \* scheduled frame callbacks
    timers,             \* pending inactivity timers, oldest first
    copyTimers,         \* pending copy-reset timers (time left), oldest first
    pendingMic,         \* startRecording calls awaiting getUserMedia
    pendingCopy,        \* copyToClipboard calls awaiting writeText
    sinceCopy,          \* history: ms since the last successful copy (-1: none yet)
    last                \* history: the step taken last and its input

vars == <<timeoutVariant, recognition, recState, mounted, isRecording,
          transcribedText, isCopied, mediaStreamRef, audioContextRef,
          analyserRef, animationFrameRef, timeoutRef, liveTracks, openContexts,
          frames, timers, copyTimers, pendingMic, pendingCopy, sinceCopy, last>>

\* ---------------------------------------------------------------- helpers
Handles == 1..MaxHandles

HasFresh(used) == Handles \ used # {}

\* the handle the platform returns: the least one naming no live object
Fresh(used) == CHOOSE i \in Handles \ used : \A j \in Handles \ used : i <= j

MinOf(S) == CHOOSE x \in S : \A y \in S : x <= y

Min2(a, b) == IF a <= b THEN a ELSE b

TimerIds(tms) == {tms[i].id : i \in 1..Len(tms)}

\* clearTimeout(id): a no-op for null and for a timer that has fired or was cleared
ClearTimeout(tms, id) == SelectSeq(tms, LAMBDA t : t.id # id)

\* ------------------------------------------------- recognition.onresult
\* result[0].transcript
TopTranscript(result) == result[1].transcript

\* Array.from(event.results).map(result => result[0].transcript)
RECURSIVE MapTop(_)
MapTop(results) ==
    IF results = <<>> THEN <<>>
    ELSE <<TopTranscript(Head(results))>> \o MapTop(Tail(results))

\* .join('')
RECURSIVE Join(_)
Join(strs) ==
    IF strs = <<>> THEN <<>> ELSE Head(strs) \o Join(Tail(strs))

\* what onresult hands to setTranscribedText
Transcript(results) == Join(MapTop(results))

\* a setter that appends to the text instead of replacing it
SetTranscribedTextAppending(old, transcript) == old \o transcript

\* setTranscribedText(transcript): the new state replaces the old one
SetTranscribedText(old, transcript) == transcript

\* a result segment: one hypothesis, or two different ones, best first
Alternative == [transcript : Words]
Segments == {seg \in UNION {[1..n -> Alternative] : n \in {1, 2}} :
                Len(seg) = 2 => seg[1] # seg[2]}
\* event.results: 1..MaxSegs segments
ResultLists == UNION {[1..n -> Segments] : n \in 1..MaxSegs}
\* the result lists of one segment with one hypothesis
ShortResultLists == {r \in ResultLists : Len(r) = 1 /\ Len(r[1]) = 1}

\* ------------------------------------------------------------------ Init
\* The state after mount: the effect has run (page.js 19-37, Chatbot.js 18-33)
\* and, where the platform has a SpeechRecognition constructor, the recognizer
\* is stored in state.
Init ==
    /\ timeoutVariant \in BOOLEAN
    /\ recognition \in {NULL, Recognizer}
    /\ recState = "inactive"
    /\ mounted = TRUE
    /\ isRecording = FALSE
    /\ transcribedText = <<>>
    /\ isCopied = FALSE
    /\ mediaStreamRef = NULL
    /\ audioContextRef = NULL
    /\ analyserRef = NULL
    /\ animationFrameRef = NULL
    /\ timeoutRef = NULL
    /\ liveTracks = {}
    /\ openContexts = {}
    /\ frames = {}
    /\ timers = <<>>
    /\ copyTimers = <<>>
    /\ pendingMic = 0
    /\ pendingCopy = 0
    /\ sinceCopy = -1
    /\ last = [op |-> "Init", arg |-> <<>>]

\* a stopRecording whose setIsRecording(false) is outside `if (recognition)`
StopRecordingAlwaysIdle(rc, tms) ==
    /\ recState' = IF rc # NULL /\ recState = "listening" THEN "stopping" ELSE recState
    /\ isRecording' = IF mounted THEN FALSE ELSE isRecording
    /\ liveTracks' = liveTracks \ {mediaStreamRef}
    /\ frames' = frames \ {animationFrameRef}
    /\ openContexts' = openContexts \ {audioContextRef}
    /\ timers' = ClearTimeout(tms, timeoutRef)
    /\ UNCHANGED <<timeoutVariant, recognition, mounted, transcribedText, isCopied,
                   mediaStreamRef, audioContextRef, analyserRef, animationFrameRef,
                   timeoutRef, copyTimers, pendingMic, pendingCopy, sinceCopy>>

\* --------------------------------------------------------- stopRecording
\* rc is the value of `recognition` in the closure of the stopRecording that
\* runs, tms the timers pending when it runs. After unmount setIsRecording
\* changes nothing, and the canvas access at the end throws after every
\* release has been done.
StopRecording(rc, tms) ==
    /\ recState' = IF rc # NULL /\ recState = "listening" THEN "stopping" ELSE recState
    /\ isRecording' = IF rc # NULL /\ mounted THEN FALSE ELSE isRecording
    /\ liveTracks' = liveTracks \ {mediaStreamRef}
    /\ frames' = frames \ {animationFrameRef}
    /\ openContexts' = openContexts \ {audioContextRef}
    /\ timers' = ClearTimeout(tms, timeoutRef)
    /\ UNCHANGED <<timeoutVariant, recognition, mounted, transcribedText, isCopied,
                   mediaStreamRef, audioContextRef, analyserRef, animationFrameRef,
                   timeoutRef, copyTimers, pendingMic, pendingCopy, sinceCopy>>

\* ----------------------------------------------------- record button click
\* onClick={isRecording ? stopRecording : startRecording}; startRecording runs
\* up to its await and leaves a getUserMedia request pending.
ClickRecord ==
    /\ mounted
    /\ IF isRecording
       THEN /\ StopRecording(recognition, timers)
            /\ last' = [op |-> "ClickStop", arg |-> <<>>]
       ELSE /\ pendingMic < MaxPending
            /\ pendingMic' = pendingMic + 1
            /\ last' = [op |-> "ClickStart", arg |-> <<>>]
            /\ UNCHANGED <<timeoutVariant, recognition, recState, mounted, isRecording,
                           transcribedText, isCopied, mediaStreamRef, audioContextRef,
                           analyserRef, animationFrameRef, timeoutRef, liveTracks,
                           openContexts, frames, timers, copyTimers, pendingCopy,
                           sinceCopy>>

\* a startRecording that drops the granted stream: nothing is stored or started
StartRecordingGrantedDropsStream ==
    /\ pendingMic > 0
    /\ pendingMic' = pendingMic - 1
    /\ last' = [op |-> "Granted", arg |-> <<>>]
    /\ UNCHANGED <<timeoutVariant, recognition, recState, mounted, isRecording,
                   transcribedText, isCopied, mediaStreamRef, audioContextRef,
                   analyserRef, animationFrameRef, timeoutRef, liveTracks,
                   openContexts, frames, timers, copyTimers, pendingCopy, sinceCopy>>

\* ------------------------------------------- startRecording, after the await
\* getUserMedia resolved with a stream of one live audio track. drawWaveform
\* throws when the canvas is gone (after unmount) and recognition.start()
\* throws InvalidStateError unless the session is inactive; both land in the
\* catch block, which only logs.
StartRecordingGranted ==
    /\ pendingMic > 0
    /\ HasFresh(liveTracks)
    /\ HasFresh(openContexts)
    /\ mounted => HasFresh(frames)
    /\ timeoutVariant => Len(timers) < MaxHandles
    /\ LET stream == Fresh(liveTracks)
           ctx == Fresh(openContexts)
           frame == Fresh(frames)
           timer == Fresh(TimerIds(timers))
           drawn == mounted
           started == drawn /\ recognition # NULL /\ recState = "inactive"
       IN  /\ pendingMic' = pendingMic - 1
           /\ mediaStreamRef' = stream
           /\ liveTracks' = liveTracks \cup {stream}
           /\ audioContextRef' = ctx
           /\ openContexts' = openContexts \cup {ctx}
           /\ analyserRef' = ctx
           /\ frames' = IF drawn THEN frames \cup {frame} ELSE frames
           /\ animationFrameRef' = IF drawn THEN frame ELSE animationFrameRef
           /\ recState' = IF started THEN "listening" ELSE recState
           /\ isRecording' = IF started THEN TRUE ELSE isRecording
           /\ timers' = IF started /\ timeoutVariant
                        THEN Append(timers, [id |-> timer, rem |-> InactivityMs,
                                             rc |-> recognition])
                        ELSE timers
           /\ timeoutRef' = IF started /\ timeoutVariant THEN timer ELSE timeoutRef
           /\ last' = [op |-> "Granted", arg |-> <<>>]
           /\ UNCHANGED <<timeoutVariant, recognition, mounted, transcribedText,
                          isCopied, copyTimers, pendingCopy, sinceCopy>>

\* a rejection handled outside the try block: the recognizer is started and
\* the state flipped although no stream was obtained
StartRecordingRejectedStartsAnyway ==
    /\ pendingMic > 0
    /\ pendingMic' = pendingMic - 1
    /\ recState' = IF recognition # NULL /\ recState = "inactive"
                   THEN "listening" ELSE recState
    /\ isRecording' = IF recognition # NULL /\ mounted THEN TRUE ELSE isRecording
    /\ last' = [op |-> "Rejected", arg |-> <<>>]
    /\ UNCHANGED <<timeoutVariant, recognition, mounted,
                   transcribedText, isCopied, mediaStreamRef, audioContextRef,
                   analyserRef, animationFrameRef, timeoutRef, liveTracks,
                   openContexts, frames, timers, copyTimers, pendingCopy, sinceCopy>>

\* getUserMedia rejected: the catch block logs the error
StartRecordingRejected ==
    /\ pendingMic > 0
    /\ pendingMic' = pendingMic - 1
    /\ last' = [op |-> "Rejected", arg |-> <<>>]
    /\ UNCHANGED <<timeoutVariant, recognition, recState, mounted, isRecording,
                   transcribedText, isCopied, mediaStreamRef, audioContextRef,
                   analyserRef, animationFrameRef, timeoutRef, liveTracks,
                   openContexts, frames, timers, copyTimers, pendingCopy, sinceCopy>>

\* ------------------------------------------------------ recognition.onresult
\* The handler was created by the effect of the first render, so the
\* stopRecording it hands to setTimeout is the first render's, whose
\* `recognition` is still null. Chatbot.js has no timer lines.
OnResult(results) ==
    /\ recognition # NULL
    /\ recState \in {"listening", "stopping"}
    /\ timeoutVariant => Len(ClearTimeout(timers, timeoutRef)) < MaxHandles
    /\ LET cleared == ClearTimeout(timers, timeoutRef)
           timer == Fresh(TimerIds(cleared))
       IN  IF timeoutVariant
           THEN /\ timers' = Append(cleared, [id |-> timer, rem |-> InactivityMs,
                                              rc |-> NULL])
                /\ timeoutRef' = timer
           ELSE UNCHANGED <<timers, timeoutRef>>
    /\ transcribedText' = IF mounted
                          THEN SetTranscribedText(transcribedText, Transcript(results))
                          ELSE transcribedText
    /\ last' = [op |-> "OnResult", arg |-> results]
    /\ UNCHANGED <<timeoutVariant, recognition, recState, mounted, isRecording,
                   isCopied, mediaStreamRef, audioContextRef, analyserRef,
                   animationFrameRef, liveTracks, openContexts, frames, copyTimers,
                   pendingMic, pendingCopy, sinceCopy>>

\* the end event of a session that stop() wound down: start() is allowed again
RecognizerEnd ==
    /\ recState = "stopping"
    /\ recState' = "inactive"
    /\ last' = [op |-> "RecognizerEnd", arg |-> <<>>]
    /\ UNCHANGED <<timeoutVariant, recognition, mounted, isRecording,
                   transcribedText, isCopied, mediaStreamRef, audioContextRef,
                   analyserRef, animationFrameRef, timeoutRef, liveTracks,
                   openContexts, frames, timers, copyTimers, pendingMic, pendingCopy,
                   sinceCopy>>

\* -------------------------------------------------- inactivity timer fires
\* setTimeout(stopRecording, 15000) comes due: the oldest pending timer runs
\* the stopRecording of the closure that armed it.
InactivityTimeout ==
    /\ timers # <<>>
    /\ Head(timers).rem = 0
    /\ StopRecording(Head(timers).rc, Tail(timers))
    /\ last' = [op |-> "InactivityTimeout", arg |-> <<Head(timers).rc>>]

\* ------------------------------------------------------------ drawWaveform
\* A scheduled frame callback runs: it redraws and schedules the next frame,
\* storing its handle. Without a canvas (after unmount) it throws before that.
Frame(f) ==
    /\ f \in frames
    /\ LET rest == frames \ {f}
           next == Fresh(rest)
       IN  IF mounted
           THEN /\ frames' = rest \cup {next}
                /\ animationFrameRef' = next
           ELSE /\ frames' = rest
                /\ UNCHANGED animationFrameRef
    /\ last' = [op |-> "Frame", arg |-> <<f>>]
    /\ UNCHANGED <<timeoutVariant, recognition, recState, mounted, isRecording,
                   transcribedText, isCopied, mediaStreamRef, audioContextRef,
                   analyserRef, timeoutRef, liveTracks, openContexts, timers,
                   copyTimers, pendingMic, pendingCopy, sinceCopy>>

\* an onChange that drops the user's input while recording is active
EditIgnoredWhileRecording(text) ==
    /\ mounted
    /\ transcribedText' = IF isRecording THEN transcribedText
                          ELSE SetTranscribedText(transcribedText, text)
    /\ last' = [op |-> "Edit", arg |-> text]
    /\ UNCHANGED <<timeoutVariant, recognition, recState, mounted, isRecording,
                   isCopied, mediaStreamRef, audioContextRef, analyserRef,
                   animationFrameRef, timeoutRef, liveTracks, openContexts, frames,
                   timers, copyTimers, pendingMic, pendingCopy, sinceCopy>>

\* an onChange that also ends the recording when the user types
EditStopsRecording(text) ==
    /\ mounted
    /\ transcribedText' = SetTranscribedText(transcribedText, text)
    /\ isRecording' = FALSE
    /\ last' = [op |-> "Edit", arg |-> text]
    /\ UNCHANGED <<timeoutVariant, recognition, recState, mounted,
                   isCopied, mediaStreamRef, audioContextRef, analyserRef,
                   animationFrameRef, timeoutRef, liveTracks, openContexts, frames,
                   timers, copyTimers, pendingMic, pendingCopy, sinceCopy>>

\* ------------------------------------------------------ text area onChange
Edit(text) ==
    /\ mounted
    /\ transcribedText' = SetTranscribedText(transcribedText, text)
    /\ last' = [op |-> "Edit", arg |-> text]
    /\ UNCHANGED <<timeoutVariant, recognition, recState, mounted, isRecording,
                   isCopied, mediaStreamRef, audioContextRef, analyserRef,
                   animationFrameRef, timeoutRef, liveTracks, openContexts, frames,
                   timers, copyTimers, pendingMic, pendingCopy, sinceCopy>>

\* --------------------------------------------------------- copyToClipboard
\* the copy button: copyToClipboard runs up to its await
CopyClick ==
    /\ mounted
    /\ pendingCopy < MaxPending
    /\ pendingCopy' = pendingCopy + 1
    /\ last' = [op |-> "CopyClick", arg |-> transcribedText]
    /\ UNCHANGED <<timeoutVariant, recognition, recState, mounted, isRecording,
                   transcribedText, isCopied, mediaStreamRef, audioContextRef,
                   analyserRef, animationFrameRef, timeoutRef, liveTracks,
                   openContexts, frames, timers, copyTimers, pendingMic, sinceCopy>>

\* a success handler that forgets to schedule the reset
CopySucceededNoReset ==
    /\ pendingCopy > 0
    /\ pendingCopy' = pendingCopy - 1
    /\ isCopied' = IF mounted THEN TRUE ELSE isCopied
    /\ sinceCopy' = 0
    /\ last' = [op |-> "CopySucceeded", arg |-> <<>>]
    /\ UNCHANGED <<timeoutVariant, recognition, recState, mounted, isRecording,
                   transcribedText, mediaStreamRef, audioContextRef, analyserRef,
                   animationFrameRef, timeoutRef, liveTracks, openContexts, frames,
                   timers, copyTimers, pendingMic>>

\* writeText resolved: setIsCopied(true) and a new reset timer; the timers of
\* earlier copies are left pending
CopySucceeded ==
    /\ pendingCopy > 0
    /\ Len(copyTimers) < MaxCopyTimers
    /\ pendingCopy' = pendingCopy - 1
    /\ isCopied' = IF mounted THEN TRUE ELSE isCopied
    /\ copyTimers' = Append(copyTimers, CopyResetMs)
    /\ sinceCopy' = 0
    /\ last' = [op |-> "CopySucceeded", arg |-> <<>>]
    /\ UNCHANGED <<timeoutVariant, recognition, recState, mounted, isRecording,
                   transcribedText, mediaStreamRef, audioContextRef, analyserRef,
                   animationFrameRef, timeoutRef, liveTracks, openContexts, frames,
                   timers, pendingMic>>

\* a failure handled as a success: the flag is set and a reset is scheduled
CopyFailedMarksCopied ==
    /\ pendingCopy > 0
    /\ Len(copyTimers) < MaxCopyTimers
    /\ pendingCopy' = pendingCopy - 1
    /\ isCopied' = IF mounted THEN TRUE ELSE isCopied
    /\ copyTimers' = Append(copyTimers, CopyResetMs)
    /\ last' = [op |-> "CopyFailed", arg |-> <<>>]
    /\ UNCHANGED <<timeoutVariant, recognition, recState, mounted, isRecording,
                   transcribedText, mediaStreamRef, audioContextRef, analyserRef,
                   animationFrameRef, timeoutRef, liveTracks, openContexts, frames,
                   timers, pendingMic, sinceCopy>>

\* writeText rejected: the catch block logs the error
CopyFailed ==
    /\ pendingCopy > 0
    /\ pendingCopy' = pendingCopy - 1
    /\ last' = [op |-> "CopyFailed", arg |-> <<>>]
    /\ UNCHANGED <<timeoutVariant, recognition, recState, mounted, isRecording,
                   transcribedText, isCopied, mediaStreamRef, audioContextRef,
                   analyserRef, animationFrameRef, timeoutRef, liveTracks,
                   openContexts, frames, timers, copyTimers, pendingMic, sinceCopy>>

\* setTimeout(() => setIsCopied(false), 2000) comes due
CopyReset ==
    /\ copyTimers # <<>>
    /\ Head(copyTimers) = 0
    /\ copyTimers' = Tail(copyTimers)
    /\ isCopied' = IF mounted THEN FALSE ELSE isCopied
    /\ last' = [op |-> "CopyReset", arg |-> <<>>]
    /\ UNCHANGED <<timeoutVariant, recognition, recState, mounted, isRecording,
                   transcribedText, mediaStreamRef, audioContextRef, analyserRef,
                   animationFrameRef, timeoutRef, liveTracks, openContexts, frames,
                   timers, pendingMic, pendingCopy, sinceCopy>>

\* ------------------------------------------------------- effect cleanup
\* unmount: the cleanup cancels the stored frame and closes the stored
\* context; React then drops the canvas ref and the component's state.
Unmount ==
    /\ mounted
    /\ mounted' = FALSE
    /\ frames' = frames \ {animationFrameRef}
    /\ openContexts' = openContexts \ {audioContextRef}
    /\ last' = [op |-> "Unmount", arg |-> <<>>]
    /\ UNCHANGED <<timeoutVariant, recognition, recState, isRecording,
                   transcribedText, isCopied, mediaStreamRef, audioContextRef,
                   analyserRef, animationFrameRef, timeoutRef, liveTracks, timers,
                   copyTimers, pendingMic, pendingCopy, sinceCopy>>

\* ------------------------------------------------------------------- time
Rems == {timers[i].rem : i \in 1..Len(timers)} \cup
        {copyTimers[i] : i \in 1..Len(copyTimers)}

\* The clock advances, by `step` at most and never past a pending deadline:
\* a timer that is due runs before more time passes.
Tick(step) ==
    /\ 0 \notin Rems
    /\ LET d == IF Rems = {} THEN step ELSE Min2(step, MinOf(Rems))
       IN  /\ timers' = [i \in 1..Len(timers) |->
                            [timers[i] EXCEPT !.rem = timers[i].rem - d]]
           /\ copyTimers' = [i \in 1..Len(copyTimers) |-> copyTimers[i] - d]
           /\ sinceCopy' = IF sinceCopy < 0 THEN sinceCopy
                           ELSE Min2(sinceCopy + d, CopyResetMs + 1)
    /\ last' = [op |-> "Tick", arg |-> <<>>]
    /\ UNCHANGED <<timeoutVariant, recognition, recState, mounted, isRecording,
                   transcribedText, isCopied, mediaStreamRef, audioContextRef,
                   analyserRef, animationFrameRef, timeoutRef, liveTracks,
                   openContexts, frames, pendingMic, pendingCopy>>

\* --------------------------------------------------------- specifications
\* Spec: the capture lifecycle - record button, microphone permission,
\* recognizer events, inactivity timer, render loop, text area, unmount.
Next ==
    \/ ClickRecord
    \/ StartRecordingGranted
    \/ StartRecordingRejected
    \/ \E results \in ShortResultLists : OnResult(results)
    \/ RecognizerEnd
    \/ InactivityTimeout
    \/ \E f \in frames : Frame(f)
    \/ \E text \in EditTexts : Edit(text)
    \/ Unmount
    \/ Tick(CoarseTickMs)

Spec == Init /\ [][Next]_vars

\* SpecRelay: the recognition relay - every result list up to MaxSegs
\* segments, while recording is started and stopped and after unmount.
NextRelay ==
    \/ ClickRecord
    \/ StartRecordingGranted
    \/ \E results \in ResultLists : OnResult(results)
    \/ Unmount

SpecRelay == Init /\ [][NextRelay]_vars

\* SpecCopy: the clipboard affordance on a fine clock.
NextCopy ==
    \/ \E text \in EditTexts : Edit(text)
    \/ CopyClick
    \/ CopySucceeded
    \/ CopyFailed
    \/ CopyReset
    \/ Unmount
    \/ Tick(TickMs)

SpecCopy == Init /\ [][NextCopy]_vars

\* SpecHandlers: every event handler of the component - record button,
\* permission, recognizer, render loop, text area, clipboard, unmount - within
\* one stretch of time in which no timer comes due.
NextHandlers ==
    \/ ClickRecord
    \/ StartRecordingGranted
    \/ StartRecordingRejected
    \/ \E results \in ShortResultLists : OnResult(results)
    \/ RecognizerEnd
    \/ \E f \in frames : Frame(f)
    \/ \E text \in EditTexts : Edit(text)
    \/ CopyClick
    \/ CopySucceeded
    \/ CopyFailed
    \/ Unmount

SpecHandlers == Init /\ [][NextHandlers]_vars

\* ================================================================ claims

\* what an observer can tell about the capture session
StopSteps == {"ClickStop", "InactivityTimeout"}

\* C1: a live microphone stream and an analysis node are held if and only if
\* RecordingState = Recording.
C1_CaptureHeldIffRecording ==
    (mediaStreamRef \in liveTracks /\ analyserRef \in openContexts) <=> isRecording

\* C2 (timeout variant): when the inactivity deadline armed last - by
\* startRecording or by a result event - comes due while Recording, the
\* component becomes Idle, the recognizer is stopped and the stream, the render
\* loop and the audio context of the session are released.
C2_TimeoutStopsRecording ==
    [][(/\ last'.op = "InactivityTimeout"
        /\ timeoutVariant /\ mounted /\ isRecording
        /\ Len(timers) = 1 /\ Head(timers).id = timeoutRef)
       => (/\ ~isRecording'
           /\ recState' # "listening"
           /\ mediaStreamRef \notin liveTracks'
           /\ animationFrameRef \notin frames'
           /\ audioContextRef \notin openContexts')]_vars

\* C3: at most one microphone stream with a live track is open at any time.
C3_AtMostOneLiveStream == Cardinality(liveTracks) <= 1

\* C4: a render-loop frame callback is scheduled if and only if
\* RecordingState = Recording.
C4_RenderLoopIffRecording == (frames # {}) <=> isRecording

\* the text a result list stands for: the top hypothesis of segment 1, then of
\* segment 2, ... up to segment n
RECURSIVE TopHypothesesUpTo(_, _)
TopHypothesesUpTo(results, n) ==
    IF n = 0 THEN <<>>
    ELSE TopHypothesesUpTo(results, n - 1) \o results[n][1].transcript

\* C5: right after a result event TranscriptText is the in-order concatenation
\* of the top hypothesis of every segment of that event's result list,
\* whatever the text was before.
C5_TranscriptIsTopConcatenation ==
    (last.op = "OnResult" /\ mounted)
        => transcribedText = TopHypothesesUpTo(last.arg, Len(last.arg))

\* C5 witness: a result of two segments, the first with two hypotheses, has
\* been relayed: the text is the two top hypotheses in order.
C5_Witness ==
    /\ last.op = "OnResult" /\ mounted
    /\ Len(last.arg) = 2 /\ Len(last.arg[1]) = 2
    /\ last.arg[1][1].transcript = <<"b">>
    /\ last.arg[1][2].transcript = <<"a">>
    /\ last.arg[2][1].transcript = <<"a">>
    /\ transcribedText = <<"b", "a">>

\* C6: once a microphone request has succeeded, a stopRecording leaves no
\* scheduled frame callback and no stream with a live track.
C6_StopLeavesNothingOpen ==
    [][(last'.op \in StopSteps /\ mounted /\ mediaStreamRef # NULL)
       => (frames' = {} /\ liveTracks' = {})]_vars

\* C7: stopRecording called while Idle changes no observable state:
\* RecordingState, TranscriptText, CopiedFlag, the open streams, the scheduled
\* frames and the pending timers (but for the timer whose firing made the
\* call) are as before.
C7_StopWhenIdleChangesNothing ==
    [][(last'.op \in StopSteps /\ mounted /\ ~isRecording)
       => (/\ isRecording' = isRecording
           /\ transcribedText' = transcribedText
           /\ isCopied' = isCopied
           /\ liveTracks' = liveTracks
           /\ frames' = frames
           /\ copyTimers' = copyTimers
           /\ timers' = IF last'.op = "InactivityTimeout"
                        THEN Tail(timers) ELSE timers)]_vars

\* C8: a rejected microphone request changes nothing: RecordingState keeps its
\* value, no stream is stored, no context or analysis node is built, no render
\* loop is started, the recognizer is not started and no timer is armed.
C8_RejectionChangesNothing ==
    [][last'.op = "Rejected"
       => UNCHANGED <<isRecording, recState, mediaStreamRef, audioContextRef,
                      analyserRef, animationFrameRef, timeoutRef, liveTracks,
                      openContexts, frames, timers, transcribedText, isCopied>>]_vars

\* C8 witness: the first microphone request was rejected and the component is
\* Idle with nothing acquired.
C8_Witness ==
    /\ last.op = "Rejected"
    /\ ~isRecording /\ recState = "inactive"
    /\ mediaStreamRef = NULL /\ analyserRef = NULL
    /\ liveTracks = {} /\ frames = {} /\ timers = <<>>

\* C9: CopiedFlag is true throughout the 2000 ms after a successful copy and
\* false once more than 2000 ms have passed since the last one.
C9_CopiedForTwoSeconds ==
    mounted =>
        /\ (sinceCopy >= 0 /\ sinceCopy < CopyResetMs) => isCopied
        /\ sinceCopy > CopyResetMs => ~isCopied

\* C10 (timeout variant): at most one inactivity timer is pending.
C10_SingleInactivityTimer == Len(timers) <= 1

\* C11: after unmount the microphone stream the component holds is released:
\* its track has been stopped, whatever RecordingState was.
C11_UnmountReleasesStream ==
    [][last'.op = "Unmount" => mediaStreamRef' \notin liveTracks']_vars

\* C12 (timeout variant): after unmount no inactivity timer is pending.
C12_UnmountClearsTimer == ~mounted => timers = <<>>

\* C13: right after unmount no frame callback is scheduled and no audio
\* context is open, whatever RecordingState was.
C13_UnmountLeavesNoFrameNoContext ==
    [][last'.op = "Unmount" => (frames' = {} /\ openContexts' = {})]_vars

\* C14: while the component is mounted, CopiedFlag is true only if a clipboard
\* write succeeded and the last success is at most 2000 ms old.
C14_CopiedOnlyWithinWindow ==
    (mounted /\ isCopied) => (sinceCopy >= 0 /\ sinceCopy <= CopyResetMs)

\* C14 witness: the flag is still true 2000 ms after a copy, the reset being
\* due but not yet run.
C14_Witness ==
    /\ mounted /\ isCopied /\ sinceCopy = CopyResetMs
    /\ copyTimers # <<>> /\ Head(copyTimers) = 0

\* C15 as claimed: after a failed clipboard write CopiedFlag is false and the
\* call has scheduled no reset timer, whatever happened before.
C15_FailedCopyLeavesFlagFalse ==
    [][last'.op = "CopyFailed" => (~isCopied' /\ copyTimers' = copyTimers)]_vars

\* C15 amended: a failed clipboard write leaves CopiedFlag as it was and
\* schedules no reset timer.
C15_FailedCopyChangesNothing ==
    [][last'.op = "CopyFailed"
       => (isCopied' = isCopied /\ copyTimers' = copyTimers)]_vars

\* C15 witness: a write failed while the flag of an earlier successful copy
\* was still shown, its reset still pending.
C15_Witness ==
    /\ last.op = "CopyFailed" /\ mounted
    /\ isCopied /\ sinceCopy >= 0 /\ sinceCopy < CopyResetMs
    /\ Len(copyTimers) = 1

\* C16: without a speech-recognition facility, a startRecording whose
\* microphone request succeeds (on a mounted component) stores a live stream,
\* builds the analysis node and schedules a frame, and TranscriptText changes
\* only through an edit of the text area.
C16_NoRecognizerStillCaptures ==
    [][recognition = NULL
       => /\ (last'.op = "Granted" /\ mounted)
                => /\ mediaStreamRef' \in liveTracks'
                   /\ audioContextRef' \in openContexts'
                   /\ analyserRef' = audioContextRef'
                   /\ animationFrameRef' \in frames'
                   /\ Cardinality(liveTracks') = Cardinality(liveTracks) + 1
                   /\ Cardinality(frames') = Cardinality(frames) + 1
          /\ transcribedText' # transcribedText => last'.op = "Edit"]_vars

\* C16 witness: no recognizer, the microphone was granted, and the stream,
\* the analysis node and the render loop are live while the state is Idle.
C16_Witness ==
    /\ recognition = NULL /\ mounted
    /\ last.op = "Granted"
    /\ mediaStreamRef \in liveTracks
    /\ analyserRef \in openContexts
    /\ animationFrameRef \in frames
    /\ ~isRecording /\ recState = "inactive"

\* C17: RecordingState changes only in the step that completes a
\* startRecording, in a stop from the record button or in an inactivity
\* timeout; result events, edits, clipboard steps and frames leave it
\* unchanged, and without a timer only the button's start and stop change it.
C17_OnlyStartStopChangeRecording ==
    [][isRecording' # isRecording
       => /\ last'.op \in {"Granted", "ClickStop", "InactivityTimeout"}
          /\ last'.op = "Granted" => isRecording'
          /\ last'.op \in StopSteps => ~isRecording'
          /\ ~timeoutVariant => last'.op \in {"Granted", "ClickStop"}]_vars

\* C17 witness: a copy succeeded while Recording, after a result event and an
\* edit had set the text, and the component is still Recording.
C17_Witness ==
    /\ last.op = "CopySucceeded" /\ mounted
    /\ isRecording /\ recState = "listening"
    /\ isCopied /\ transcribedText = <<"b", "a">>
    /\ frames # {}

\* C18: while the component is mounted TranscriptText is last-writer-wins: an
\* edit step leaves exactly the edited value, recording or not; a result
\* event leaves exactly that event's top hypotheses, whatever an edit had
\* put there; and no other step changes the text.
C18_LastWriterWins ==
    [][mounted'
       => /\ last'.op = "Edit" => transcribedText' = last'.arg
          /\ last'.op = "OnResult"
                => transcribedText' = TopHypothesesUpTo(last'.arg, Len(last'.arg))
          /\ last'.op \notin {"Edit", "OnResult"}
                => transcribedText' = transcribedText]_vars

\* C18 witness: an edit made while Recording, with the recognizer listening,
\* is the text of the field.
C18_Witness ==
    /\ last.op = "Edit" /\ mounted
    /\ isRecording /\ recState = "listening"
    /\ last.arg = <<"b", "a">>
    /\ transcribedText = <<"b", "a">>

\* C19: at most one frame callback is pending at any time, and the stored
\* frame handle identifies it.
C19_SingleRenderLoop ==
    /\ Cardinality(frames) <= 1
    /\ frames # {} => frames = {animationFrameRef}

\* C20: where a recognizer exists and the component is mounted, the
\* recognizer is started and not since stopped by the component exactly when
\* RecordingState is Recording.
C20_RecognizerMovesWithRecording ==
    (recognition # NULL /\ mounted) => (recState = "listening" <=> isRecording)

\* C20 witness: the inactivity timeout armed by a result event has fired with
\* the first render's stopRecording, which touches neither the recognizer nor
\* RecordingState: both are still active.
C20_Witness ==
    /\ recognition # NULL /\ mounted
    /\ last.op = "InactivityTimeout"
    /\ recState = "listening" /\ isRecording

====
